---- MODULE Spec2Model ----
(***************************************************************************)
(* Multi-resolution sinusoidal analysis: sineModelMultiResAnal of          *)
(* src/sineModelMultiRes.py, as a state machine.                           *)
(*                                                                         *)
(* One run of sineModelMultiResAnal is modelled: the arguments are chosen  *)
(* in the initial state, Setup is lines 18-22 and 46-49, Frame is one      *)
(* iteration of the while loop of lines 50-82 and Finish is lines 84-85.   *)
(*                                                                         *)
(* Numbers.  hsN = H/2 is Python 3 true division, so pin can be a half     *)
(* integer: the model keeps 2*pin in the variable pin2, and np.zeros(pin)  *)
(* is taken to give int(pin) samples.  minSineDur is the rational          *)
(* minSineDur/DurDen.  A window is modelled by its length w.size, the      *)
(* signal x by its length and by the tone frequencies it contains.         *)
(*                                                                         *)
(* Collaborators.  dftModel, utilFunctions and sineModel are imported, not *)
(* part of the file: DFT.dftAnal with UF.peakDetection and UF.peakInterp   *)
(* (PeakDetection, ipmag, ipphase, DftError), SM.sineTracking and          *)
(* SM.cleaningSineTracks are modelled from their contracts in spec.md.     *)
(***************************************************************************)
EXTENDS Integers, Sequences, FiniteSets, TLC

VARIABLES
    fs,          \* sampling rate (argument)
    ws,          \* window lengths w.size, one per band (argument)
    Ns,          \* transform sizes, one per band (argument)
    Bs,          \* band edges in Hz, one per band (argument)
    H,           \* hop size (argument)
    minSineDur,  \* minimum track duration, in 1/DurDen seconds (argument)
    maxnSines,   \* maximum number of simultaneous tracks (argument)
    tones,       \* frequencies of the partials present in the signal x
    pend,        \* x.size before padding (line 19)
    xsize,       \* x.size after the padding of lines 21-22
    pc,          \* "start", "loop", "done" (returned) or "error" (raised)
    pin2,        \* 2 * pin
    tfreq,       \* track frequencies carried into the next sineTracking call
    xtfreq,      \* frequency matrix, a sequence of rows
    xtmag,       \* magnitude matrix
    xtphase,     \* phase matrix
    segs,        \* per band, <<start, stop>> of the slice x1 of the last frame
    pfs,         \* merged peaks of the last frame:
                 \* <<band, bin, frequency, magnitude, phase>>
    tsize        \* size of the last sineTracking result before line 63

args == <<fs, ws, Ns, Bs, H, minSineDur, maxnSines, tones, pend>>
vars == <<fs, ws, Ns, Bs, H, minSineDur, maxnSines, tones, pend,
          xsize, pc, pin2, tfreq, xtfreq, xtmag, xtphase, segs, pfs, tsize>>

----------------------------------------------------------------------------
(* Bounds of the model *)

MaxLen == 5          \* longest input signal, in samples
MaxWin == 4          \* longest analysis window
MaxHop == 3          \* largest hop size
TrackLen == 3        \* longest input signal when the tracks are followed
MaxSines == 2        \* largest maxnSines
MaxDur == 3          \* largest minSineDur numerator
DurDen == 16         \* minSineDur is minSineDur/DurDen seconds
MaxEdge == 8         \* largest band edge, in Hz

\* The frame loop does not end when H = 0: the model stops it here.  For
\* H >= 1 the loop ends on its own after at most MaxLen frames.
MaxFrames == MaxLen + 1

----------------------------------------------------------------------------
(* Arithmetic *)

Max(S) == CHOOSE m \in S : \A y \in S : y <= m

\* math.floor(a/b) for b > 0
FloorDiv(a, b) == a \div b

\* np.ceil(a/b) for b > 0
Ceil(a, b) == -((-a) \div b)

\* round(a/b) for a >= 0, b > 0: Python 3 and numpy round half to even
Round(a, b) ==
    LET q == a \div b
        r == a % b
    IN  IF 2 * r < b THEN q
        ELSE IF 2 * r > b THEN q + 1
        ELSE IF q % 2 = 0 THEN q ELSE q + 1

\* int(a2/2): truncation toward zero of a half-integer given doubled
IntHalf(a2) == IF a2 >= 0 THEN a2 \div 2 ELSE -((-a2) \div 2)

----------------------------------------------------------------------------
(* The configuration the spec calls valid (spec section 7) *)

StrictlyIncreasing(s) == \A i, j \in DOMAIN s : i < j => s[i] < s[j]

ValidConfig ==
    /\ Len(ws) >= 1
    /\ StrictlyIncreasing(Bs)
    /\ H > 0
    /\ \A i \in DOMAIN ws : ws[i] <= Ns[i]

----------------------------------------------------------------------------
(* Lines 18-22: initial frame position and zero padding *)

hM1(M) == FloorDiv(M + 1, 2)
hM2(M) == FloorDiv(M, 2)

\* 2 * hsN, hsN = H/2
hsN2 == H

\* faulty variant: the half window rounded down, floor(w.size/2)
InitialPin2Floor == Max({hsN2} \cup {2 * hM2(ws[i]) : i \in DOMAIN ws})

\* 2 * max([hsN] + [floor((w.size+1)/2) for w in ws])
InitialPin2 == Max({hsN2} \cup {2 * hM1(ws[i]) : i \in DOMAIN ws})

\* faulty variant: the signal is not padded
PaddedSizeNone == pend

\* np.zeros(pin) has int(pin) samples
PaddedSize == pend + 2 * IntHalf(InitialPin2)

----------------------------------------------------------------------------
(* Lines 24-44: dftAnal, the analysis of one band at one frame *)

\* x1 = x[int(p-hM1):int(p+hM2)], as <<start, stop>>
Slice(p2, M) == <<IntHalf(p2 - 2 * hM1(M)), IntHalf(p2 + 2 * hM2(M))>>

\* Bs.index(B): the first position holding B (1-based here)
IndexOf(s, v) == CHOOSE i \in DOMAIN s : s[i] = v /\ \A j \in DOMAIN s : s[j] = v => i <= j

LowerBin(N, B) ==
    LET upperIndex == IndexOf(Bs, B)
    IN  IF upperIndex > 1 THEN Ceil(Bs[upperIndex - 1] * N, fs) ELSE 1

UpperBin(N, B) == Ceil(B * N, fs)

\* UF.peakDetection on the spectrum of DFT.dftAnal: a tone of frequency f
\* gives a peak at bin round(f*N/fs)
PeakDetection(N) == {Round(f * N, fs) : f \in tones}

\* faulty variant: the lower bin is included
InBandClosed(N, B, ploc) == ploc >= LowerBin(N, B) /\ ploc <= UpperBin(N, B)

\* ploc[np.logical_and(ploc>lower_bin, ploc<=upper_bin)]
InBand(N, B, ploc) == ploc > LowerBin(N, B) /\ ploc <= UpperBin(N, B)

BandPeaks(i) == {k \in PeakDetection(Ns[i]) : InBand(Ns[i], Bs[i], k)}

\* ipfreq = fs*iploc/float(N), with iploc the detected bin
PeakFreq(k, N) == (fs * k) \div N

\* UF.peakInterp on the spectra of DFT.dftAnal, which the model does not
\* compute: the peak at bin k is given the magnitude -k dB and the phase k
ipmag(k) == -k
ipphase(k) == k

\* DFT.dftAnal raises when the window is longer than the transform
DftError(i) == ws[i] > Ns[i]

----------------------------------------------------------------------------
(* Lines 56-60: the peaks of all bands, by band, then by bin *)

RECURSIVE SortedSeq(_)
SortedSeq(S) ==
    IF S = {} THEN <<>>
    ELSE LET m == Max(S) IN Append(SortedSeq(S \ {m}), m)

RECURSIVE MergedPeaks(_)
MergedPeaks(n) ==
    IF n = 0 THEN <<>>
    ELSE LET ks == SortedSeq(BandPeaks(n))
         IN  MergedPeaks(n - 1) \o
             [j \in 1..Len(ks) |->
                 <<n, ks[j], PeakFreq(ks[j], Ns[n]), ipmag(ks[j]), ipphase(ks[j])>>]

----------------------------------------------------------------------------
(* Line 62: SM.sineTracking.  Every result has three vectors of one size, *)
(* with the slots of the previous frame and at most one more per peak; a  *)
(* slot is dead (0, 0, 0) or holds the frequency of a peak of the frame   *)
(* with its magnitude and phase; no peak is held by two slots.            *)

SineTracking(peaks, prev) ==
    LET Claims == UNION {[1..n -> 0..Len(peaks)] :
                            n \in Len(prev)..(Len(prev) + Len(peaks))}
        OneSlotEach == {a \in Claims :
                           \A i, j \in DOMAIN a : (i # j /\ a[i] # 0) => a[i] # a[j]}
    IN  {[i \in DOMAIN a |->
             IF a[i] = 0 THEN <<0, 0, 0>>
             ELSE <<peaks[a[i]][3], peaks[a[i]][4], peaks[a[i]][5]>>] :
         a \in OneSlotEach}

----------------------------------------------------------------------------
(* Lines 63-71: the row of the frame *)

Min2(a, b) == IF a <= b THEN a ELSE b

\* np.resize(a, n): the first n entries, a repeated when it is shorter
Resize(a, n) ==
    IF Len(a) = 0 THEN [i \in 1..n |-> 0]
    ELSE [i \in 1..n |-> a[((i - 1) % Len(a)) + 1]]

\* faulty variant: the tracker's result is kept whole
TruncateNone(t) == t

\* np.resize(t, min(maxnSines, t.size))
Truncate(t) == Resize(t, Min2(maxnSines, Len(t)))

\* j = np.zeros(maxnSines); j[:t.size] = t
PadRow(t) == [i \in 1..maxnSines |-> IF i <= Len(t) THEN t[i] ELSE 0]

\* faulty variant: the magnitude row starts from ones instead of zeros
jtmagOnes(t) == [i \in 1..maxnSines |-> IF i <= Len(t) THEN t[i] ELSE 1]

\* lines 66 and 69, 67 and 70, 68 and 71
jtfreq(t) == PadRow(t)
jtmag(t) == PadRow(t)
jtphase(t) == PadRow(t)

\* lines 73-80: the first row replaces the empty array (the matrix of one
\* row is the 1-D array jtfreq itself), later rows are stacked by np.vstack
Stack(xt, row) == IF Len(xt) = 0 THEN <<row>> ELSE Append(xt, row)

----------------------------------------------------------------------------
(* Line 84: SM.cleaningSineTracks and its minimum track length *)

\* round(fs*minSineDur/H), H > 0
MinFrames == Round(fs * minSineDur, DurDen * H)

\* length of the maximal run of nonzero values of column c that holds row r
RunLength(m, r, c) ==
    LET lo == CHOOSE a \in 1..r :
                  /\ \A k \in a..r : m[k][c] # 0
                  /\ (a = 1 \/ m[a - 1][c] = 0)
        hi == CHOOSE b \in r..Len(m) :
                  /\ \A k \in r..b : m[k][c] # 0
                  /\ (b = Len(m) \/ m[b + 1][c] = 0)
    IN  hi - lo + 1

\* every maximal run of nonzero values shorter than minTrackLength is zeroed
CleaningSineTracks(m, minTrackLength) ==
    [r \in 1..Len(m) |->
        [c \in 1..Len(m[r]) |->
            IF m[r][c] # 0 /\ RunLength(m, r, c) < minTrackLength
            THEN 0 ELSE m[r][c]]]

----------------------------------------------------------------------------
(* sineModelMultiResAnal *)

\* faulty variant: the loop runs to the end of the padded buffer
LoopCondPadded == pin2 <= 2 * xsize

\* line 50: while pin<=pend
LoopCond == pin2 <= 2 * pend

\* lines 18-22 and 46-49
Setup ==
    /\ pc = "start"
    /\ pin2' = InitialPin2
    /\ xsize' = PaddedSize
    /\ tfreq' = <<>>
    /\ xtfreq' = <<>>
    /\ xtmag' = <<>>
    /\ xtphase' = <<>>
    /\ pc' = "loop"
    /\ UNCHANGED <<args, segs, pfs, tsize>>

\* lines 50-82: one iteration of the while loop
Frame ==
    /\ pc = "loop"
    /\ LoopCond
    /\ Len(xtfreq) < MaxFrames
    /\ IF \E i \in DOMAIN ws : DftError(i)
       THEN LET e == CHOOSE i \in DOMAIN ws :
                         DftError(i) /\ \A j \in DOMAIN ws : DftError(j) => i <= j
            IN  /\ segs' = [i \in 1..e |-> Slice(pin2, ws[i])]
                /\ pc' = "error"
                /\ UNCHANGED <<pin2, tfreq, xtfreq, xtmag, xtphase, pfs, tsize>>
       ELSE \E t \in SineTracking(MergedPeaks(Len(ws)), tfreq) :
                LET f == Truncate([i \in DOMAIN t |-> t[i][1]])
                    m == Truncate([i \in DOMAIN t |-> t[i][2]])
                    p == Truncate([i \in DOMAIN t |-> t[i][3]])
                IN  /\ segs' = [i \in DOMAIN ws |-> Slice(pin2, ws[i])]
                    /\ pfs' = MergedPeaks(Len(ws))
                    /\ tsize' = Len(t)
                    /\ tfreq' = f
                    /\ xtfreq' = Stack(xtfreq, jtfreq(f))
                    /\ xtmag' = Stack(xtmag, jtmag(m))
                    /\ xtphase' = Stack(xtphase, jtphase(p))
                    /\ pin2' = pin2 + 2 * H
                    /\ pc' = "loop"
    /\ UNCHANGED <<args, xsize>>

\* faulty variant: the matrices are returned without cleaning
FinishNoClean ==
    /\ pc = "loop"
    /\ ~LoopCond
    /\ pc' = (IF H = 0 THEN "error" ELSE "done")
    /\ UNCHANGED <<args, xsize, pin2, tfreq, xtfreq, xtmag, xtphase, segs, pfs, tsize>>

\* lines 84-85: the loop has ended; fs*minSineDur/H raises when H = 0
Finish ==
    /\ pc = "loop"
    /\ ~LoopCond
    /\ IF H = 0
       THEN pc' = "error" /\ UNCHANGED xtfreq
       ELSE pc' = "done" /\ xtfreq' = CleaningSineTracks(xtfreq, MinFrames)
    /\ UNCHANGED <<args, xsize, pin2, tfreq, xtmag, xtphase, segs, pfs, tsize>>

Next == Setup \/ Frame \/ Finish

----------------------------------------------------------------------------
(* The arguments of the run *)

InitLocals ==
    /\ pc = "start"
    /\ xsize = 0
    /\ pin2 = 0
    /\ tfreq = <<>>
    /\ xtfreq = <<>>
    /\ xtmag = <<>>
    /\ xtphase = <<>>
    /\ segs = <<>>
    /\ pfs = <<>>
    /\ tsize = 0

\* Frame loop: every window length, transform size, hop and signal length,
\* valid or not, of a signal without partials
Init ==
    /\ fs = 16
    /\ \E n \in 0..2 :
        /\ ws \in [1..n -> 1..MaxWin]
        /\ Ns \in [1..n -> {2, 4}]
        /\ Bs \in [1..n -> {4, 8}]
    /\ H \in 0..MaxHop
    /\ minSineDur = 1
    /\ maxnSines = 1
    /\ tones = {}
    /\ pend \in 0..MaxLen
    /\ InitLocals

Spec == Init /\ [][Next]_vars

\* Tracks: one band, a signal with one or two partials, every capacity and
\* minimum duration
InitTrack ==
    /\ fs = 16
    /\ ws = <<1>>
    /\ Ns = <<16>>
    /\ Bs = <<8>>
    /\ H \in {1, 2}
    /\ minSineDur \in 1..MaxDur
    /\ maxnSines \in 1..MaxSines
    /\ tones \in {{3}, {3, 5}}
    /\ pend \in 0..TrackLen
    /\ InitLocals

SpecTrack == InitTrack /\ [][Next]_vars

\* Bands: two bands with every pair of transform sizes and of increasing
\* edges, a signal with one partial at every frequency up to fs/2
InitBand ==
    /\ fs = 16
    /\ ws = <<1, 1>>
    /\ Ns \in [1..2 -> {4, 8, 16}]
    /\ Bs \in {b \in [1..2 -> 1..MaxEdge] : b[1] < b[2]}
    /\ H = 1
    /\ minSineDur = 0
    /\ maxnSines = 1
    /\ tones \in {{f} : f \in 1..8}
    /\ pend = 1
    /\ InitLocals

SpecBand == InitBand /\ [][Next]_vars

\* Edges: as InitBand, with band edges of 6 Hz and more, so that the first
\* band is at least two bins wide at every transform size
InitEdge ==
    /\ fs = 16
    /\ ws = <<1, 1>>
    /\ Ns \in [1..2 -> {4, 8, 16}]
    /\ Bs \in {b \in [1..2 -> 6..MaxEdge] : b[1] < b[2]}
    /\ H = 1
    /\ minSineDur = 0
    /\ maxnSines = 1
    /\ tones \in {{f} : f \in 1..8}
    /\ pend = 1
    /\ InitLocals

SpecEdge == InitEdge /\ [][Next]_vars

----------------------------------------------------------------------------
(* Claims *)

Matrices == {xtfreq, xtmag, xtphase}

\* 2 * pin0 as the claims state it: max(H/2, max over bands of
\* floor((windowLength+1)/2))
ClaimPin0x2 == Max({H} \cup {2 * ((ws[i] + 1) \div 2) : i \in DOMAIN ws})

\* frames at pin0, pin0+H, ... up to the original length
FramesUpTo(len) ==
    IF 2 * len >= ClaimPin0x2 THEN (2 * len - ClaimPin0x2) \div (2 * H) + 1 ELSE 0

\* C1 (as amended): for every valid configuration and every input length
\* the function returns, every row of the three matrices has exactly
\* maxnSines entries, and the number of rows is
\* floor((originalLength - pin0)/H) + 1 when originalLength >= pin0 and 0
\* otherwise.
C1_RowCount ==
    ValidConfig =>
        /\ pc # "error"
        /\ pc = "done" =>
              \A m \in Matrices :
                  /\ Len(m) = FramesUpTo(pend)
                  /\ \A r \in DOMAIN m : Len(m[r]) = maxnSines

C1_Witness ==
    /\ ValidConfig
    /\ pc = "done"
    /\ Len(xtfreq) >= 2
    /\ Len(ws) = 2

\* C1 (as stated): the number of rows is floor((paddedLength - pin0)/H) + 1
\* with paddedLength = originalLength + 2*pin0.
C1_Original ==
    (ValidConfig /\ pc = "done") =>
        \A m \in Matrices :
            /\ Len(m) = (2 * pend + 2 * ClaimPin0x2 - ClaimPin0x2) \div (2 * H) + 1
            /\ \A r \in DOMAIN m : Len(m[r]) = maxnSines

\* C2: every row of the three matrices has exactly maxnSines entries, at
\* most maxnSines of them nonzero, and the track vector carried into the
\* next sineTracking call has at most maxnSines entries, whatever the
\* number of peaks and the size of the tracker's result.
C2_Capacity ==
    /\ Len(tfreq) <= maxnSines
    /\ \A m \in Matrices : \A r \in DOMAIN m :
          /\ Len(m[r]) = maxnSines
          /\ Cardinality({c \in DOMAIN m[r] : m[r][c] # 0}) <= maxnSines

C2_Witness ==
    /\ tsize > maxnSines
    /\ Len(pfs) > maxnSines
    /\ Len(xtfreq) >= 2
    /\ \E c \in 1..maxnSines : xtfreq[Len(xtfreq)][c] # 0

\* C3: an invalid configuration ends in an error before any frame is
\* processed: the function never returns, never appends a row, and never
\* stands in the frame loop with H <= 0.
C3_Rejected ==
    ~ValidConfig =>
        /\ pc # "done"
        /\ \A m \in Matrices : Len(m) = 0
        /\ ~(pc = "loop" /\ H <= 0 /\ LoopCond)

\* band i reports, among the peaks of the last frame, bin k
Retained(i, k) == \E j \in DOMAIN pfs : pfs[j][1] = i /\ pfs[j][2] = k

\* the bin at which band i detects a tone of frequency f
ToneBin(i, f) == Round(f * Ns[i], fs)

\* C4: a tone is reported by at most one of two adjacent bands, and a tone
\* at the shared edge Bs[i] by exactly one.
C4_NoDuplicate ==
    (ValidConfig /\ Len(xtfreq) >= 1) =>
        \A f \in tones : \A i \in 1..(Len(Bs) - 1) :
            /\ ~(Retained(i, ToneBin(i, f)) /\ Retained(i + 1, ToneBin(i + 1, f)))
            /\ f = Bs[i] =>
                  (Retained(i, ToneBin(i, f)) \/ Retained(i + 1, ToneBin(i + 1, f)))

\* N times the lower edge of band i, the first band starting at bin 1
LowEdgeN(i) == IF i = 1 THEN fs ELSE Bs[i - 1] * Ns[i]

\* C5 (as amended): band i retains a detected bin k only if
\* lower < fs*k/N < Bs[i] + fs/N, and retains every detected bin with
\* lower + fs/N <= fs*k/N <= Bs[i], where lower is Bs[i-1], and fs/N (bin 1)
\* for the first band.
C5_BandRange ==
    (ValidConfig /\ Len(xtfreq) >= 1) =>
        \A i \in DOMAIN Ns : \A k \in PeakDetection(Ns[i]) :
            /\ Retained(i, k) =>
                  (LowEdgeN(i) < fs * k /\ fs * k < Bs[i] * Ns[i] + fs)
            /\ (LowEdgeN(i) + fs <= fs * k /\ fs * k <= Bs[i] * Ns[i]) =>
                  Retained(i, k)

C5_Witness ==
    /\ ValidConfig
    /\ Len(xtfreq) >= 1
    /\ \E k \in PeakDetection(Ns[2]) :
          Retained(2, k) /\ fs * k > Bs[2] * Ns[2]

\* C5 (as stated): band i retains a detected bin k if and only if
\* Bs[i-1] < fs*k/N <= Bs[i], with Bs[-1] = 0.
C5_Original ==
    (ValidConfig /\ Len(xtfreq) >= 1) =>
        \A i \in DOMAIN Ns : \A k \in PeakDetection(Ns[i]) :
            Retained(i, k) <=>
                /\ (IF i = 1 THEN 0 ELSE Bs[i - 1] * Ns[i]) < fs * k
                /\ fs * k <= Bs[i] * Ns[i]

\* C6: in the returned frequency matrix every maximal run of nonzero values
\* of every column is at least MinFrames = round(fs*minSineDur/H) long, and
\* between frames the rows already appended are left as they were appended
\* (the cleaner runs once, after the last frame).
C6_MinRun ==
    /\ [](pc = "done" =>
            \A r \in DOMAIN xtfreq : \A c \in DOMAIN xtfreq[r] :
                xtfreq[r][c] # 0 => RunLength(xtfreq, r, c) >= MinFrames)
    /\ [][(pc = "loop" /\ pc' = "loop") =>
            SubSeq(xtfreq', 1, Len(xtfreq)) = xtfreq]_vars

C6_Witness ==
    /\ pc = "done"
    /\ MinFrames >= 2
    /\ \E r \in DOMAIN xtfreq : \E c \in DOMAIN xtfreq[r] : xtfreq[r][c] # 0
    /\ \E r \in DOMAIN xtfreq : \E c \in DOMAIN xtfreq[r] :
          xtfreq[r][c] = 0 /\ xtmag[r][c] # 0

\* C7: the loop starts at pin0, advances pin by exactly H per frame,
\* processes exactly the positions pin0 + k*H that are <= the original
\* length, and for H > 0 ends, after at most originalLength frames, at the
\* first position beyond the original length.
C7_FrameLoop ==
    (ValidConfig /\ pc \in {"loop", "done"}) =>
        /\ pin2 = ClaimPin0x2 + 2 * H * Len(xtfreq)
        /\ \A k \in 1..Len(xtfreq) : ClaimPin0x2 + 2 * H * (k - 1) <= 2 * pend
        /\ Len(xtfreq) <= pend
        /\ pc = "done" => pin2 > 2 * pend
        /\ pc = "loop" =>
              /\ (ENABLED Frame) <=> (pin2 <= 2 * pend)
              /\ (ENABLED Finish) <=> (pin2 > 2 * pend)

C7_Witness ==
    /\ ValidConfig
    /\ pc = "done"
    /\ H >= 2
    /\ Len(xtfreq) >= 2
    /\ pin2 <= 2 * xsize

\* C8: with a zero-length input and a valid configuration no frame is
\* processed, no tracker call is made, no error is raised and the returned
\* matrices are empty.
C8_EmptyInput ==
    (ValidConfig /\ pend = 0) =>
        /\ pc # "error"
        /\ \A m \in Matrices : m = <<>>
        /\ tsize = 0 /\ segs = <<>> /\ tfreq = <<>>
        /\ pc = "loop" => (~ENABLED Frame /\ ENABLED Finish)

C8_Witness ==
    /\ ValidConfig
    /\ pend = 0
    /\ pc = "done"
    /\ xtfreq = <<>>

\* C9: for a valid configuration the segment of every band at every frame
\* lies inside the padded buffer and has exactly windowLength samples.
C9_FullWindow ==
    ValidConfig =>
        \A i \in DOMAIN segs :
            /\ 0 <= segs[i][1]
            /\ segs[i][2] <= xsize
            /\ segs[i][2] - segs[i][1] = ws[i]

C9_Witness ==
    /\ ValidConfig
    /\ Len(segs) = 2
    /\ ws[1] % 2 = 1
    /\ ws[2] % 2 = 0
    /\ segs[2][2] > pend
    /\ Len(xtfreq) >= 2

\* a zero frequency cell has zero magnitude and zero phase
Parallel ==
    \A r \in DOMAIN xtfreq : \A c \in DOMAIN xtfreq[r] :
        xtfreq[r][c] = 0 => (xtmag[r][c] = 0 /\ xtphase[r][c] = 0)

\* C10 (as amended): while the frame loop runs, a zero frequency cell has
\* zero magnitude and phase; the final step changes the frequency matrix
\* only, and only by zeroing cells, so the returned magnitude and phase
\* matrices are those the loop built.
C10_Parallel ==
    /\ [](pc = "loop" => Parallel)
    /\ [][pc' = "done" =>
            /\ xtmag' = xtmag
            /\ xtphase' = xtphase
            /\ Len(xtfreq') = Len(xtfreq)
            /\ \A r \in DOMAIN xtfreq : \A c \in DOMAIN xtfreq[r] :
                  xtfreq'[r][c] \in {0, xtfreq[r][c]}]_vars

C10_Witness ==
    /\ pc = "done"
    /\ Len(xtfreq) >= 3
    /\ \E r \in DOMAIN xtfreq : \E c \in DOMAIN xtfreq[r] :
          xtfreq[r][c] = 0 /\ xtmag[r][c] # 0 /\ xtphase[r][c] # 0
    /\ \E r \in DOMAIN xtfreq : \E c \in DOMAIN xtfreq[r] :
          xtfreq[r][c] = 0 /\ xtmag[r][c] = 0

\* C10 (as stated): in the returned matrices a zero frequency cell has zero
\* magnitude and zero phase, the cells zeroed by the cleaner included.
C10_Original == pc = "done" => Parallel

====
